---- MODULE Spec2Model ----
(***************************************************************************)
(* Model of the k8scel driver's source schema (schema/schema.go) and of    *)
(* the transform layer that compiles a ConstraintTemplate into a           *)
(* ValidatingAdmissionPolicy and a constraint into a                       *)
(* ValidatingAdmissionPolicyBinding (transform/make_vap_objects.go, known  *)
(* here through make_vap_objects_test.go).                                 *)
(*                                                                         *)
(* Strings whose content the code inspects (names, kinds, failure policy,  *)
(* enforcement action) are sequences of one-character strings, so that     *)
(* strings.HasPrefix, strings.ToLower and == are computed, not assumed.    *)
(* CEL expressions and messages are only ever copied or compared with "",  *)
(* and are TLA+ strings.                                                   *)
(*                                                                         *)
(* A Go pointer or slice that may be nil is modelled as a sequence of      *)
(* length at most one: <<>> is nil and <<x>> is a non-nil value x.         *)
(* A Go (value, error) result is the record [val |-> ..., err |-> ...].    *)
(***************************************************************************)
EXTENDS Integers, Sequences, FiniteSets, TLC

VARIABLES src, template, constraint, op, out, err

vars == <<src, template, constraint, op, out, err>>

(***************************************************************************)
(* Bounds of the model.                                                    *)
(***************************************************************************)
MaxConds == 2
MaxVars == 2
MaxVals == 2
MaxCode == 3
MaxTargets == 2

(***************************************************************************)
(* Strings.                                                                *)
(***************************************************************************)
Name == <<"K", "8", "s", "N", "a", "t", "i", "v", "e", "V", "a", "l", "i", "d", "a", "t", "i", "o", "n">>

ReservedPrefix == <<"g", "a", "t", "e", "k", "e", "e", "p", "e", "r", "_", "i", "n", "t", "e", "r", "n", "a", "l", "_">>

ParamsName == <<"p", "a", "r", "a", "m", "s">>

\* admissionv1.Fail and admissionv1.Ignore; the v1alpha1 constants have the same text.
Fail == <<"F", "a", "i", "l">>

Ignore == <<"I", "g", "n", "o", "r", "e">>

HasPrefix(s, prefix) ==
    /\ Len(s) >= Len(prefix)
    /\ SubSeq(s, 1, Len(prefix)) = prefix

LowerChar(c) ==
    CASE c = "A" -> "a" [] c = "B" -> "b" [] c = "C" -> "c" [] c = "D" -> "d"
      [] c = "E" -> "e" [] c = "F" -> "f" [] c = "G" -> "g" [] c = "H" -> "h"
      [] c = "I" -> "i" [] c = "J" -> "j" [] c = "K" -> "k" [] c = "L" -> "l"
      [] c = "M" -> "m" [] c = "N" -> "n" [] c = "O" -> "o" [] c = "P" -> "p"
      [] c = "Q" -> "q" [] c = "R" -> "r" [] c = "S" -> "s" [] c = "T" -> "t"
      [] c = "U" -> "u" [] c = "V" -> "v" [] c = "W" -> "w" [] c = "X" -> "x"
      [] c = "Y" -> "y" [] c = "Z" -> "z" [] OTHER -> c

ToLower(s) == [i \in 1..Len(s) |-> LowerChar(s[i])]

(***************************************************************************)
(* nil, non-nil values, errors.                                            *)
(***************************************************************************)
Nil == <<>>

Some(x) == <<x>>

\* The elements of a Go slice; ranging over a nil slice ranges over nothing.
Items(s) == IF s = Nil THEN <<>> ELSE s[1]

\* The nil error.
NoError == [is |-> "nil", arg |-> <<>>]

\* fmt.Errorf("%w: ...", sentinel, arg): errors.Is(err, sentinel) holds, and
\* the message names arg.
Errorf(sentinel, arg) == [is |-> sentinel, arg |-> arg]

\* errors.New(text), and the bare sentinels.
NewError(text) == [is |-> text, arg |-> <<>>]

ErrBadType == NewError("ErrBadType")

ErrWrongTargets == NewError("wrong number of targets defined, only 1 target allowed")

ErrNotDefined == NewError("K8sNativeValidation code not defined")

\* The error FromUnstructured returns for a map that does not fit the Source type.
ErrDecode == NewError("cannot restore slice from string")

\* Not an error value: the call does not return, it panics on a nil code.Source.
PanicNilSource == NewError("panic: invalid memory address or nil pointer dereference")

(***************************************************************************)
(* schema.Source and its methods.                                          *)
(***************************************************************************)
Source(validations, failurePolicy, matchConditions, variables) ==
    [Validations |-> validations, FailurePolicy |-> failurePolicy,
     MatchConditions |-> matchConditions, Variables |-> variables]

RECURSIVE validateMatchConditionsFrom(_, _)
validateMatchConditionsFrom(conds, i) ==
    IF i > Len(conds) THEN NoError
    ELSE IF HasPrefix(conds[i].Name, ReservedPrefix)
         THEN Errorf("ErrBadMatchCondition", conds[i].Name)
         ELSE validateMatchConditionsFrom(conds, i + 1)

\* Mutant: only the first match condition is examined.
validateMatchConditionsFirstOnly(in) ==
    IF Len(in.MatchConditions) > 0 /\ HasPrefix(in.MatchConditions[1].Name, ReservedPrefix)
    THEN Errorf("ErrBadMatchCondition", in.MatchConditions[1].Name)
    ELSE NoError

\* Mutant: a name is rejected only when it equals the reserved prefix.
validateMatchConditionsExact(in) ==
    LET bad == {i \in 1..Len(in.MatchConditions) : in.MatchConditions[i].Name = ReservedPrefix}
    IN  IF bad = {} THEN NoError
        ELSE Errorf("ErrBadMatchCondition", ReservedPrefix)

validateMatchConditions(in) == validateMatchConditionsFrom(in.MatchConditions, 1)

RECURSIVE validateVariablesFrom(_, _)
validateVariablesFrom(variables, i) ==
    IF i > Len(variables) THEN NoError
    ELSE IF HasPrefix(variables[i].Name, ReservedPrefix)
         THEN Errorf("ErrBadVariable", variables[i].Name)
         ELSE IF variables[i].Name = ParamsName
              THEN Errorf("ErrBadVariable", ParamsName)
              ELSE validateVariablesFrom(variables, i + 1)

\* Mutant: the reserved parameter name is not checked.
validateVariablesNoParams(in) ==
    LET bad == {i \in 1..Len(in.Variables) : HasPrefix(in.Variables[i].Name, ReservedPrefix)}
    IN  IF bad = {} THEN NoError
        ELSE Errorf("ErrBadVariable",
                    in.Variables[CHOOSE i \in bad : \A j \in bad : i <= j].Name)

validateVariables(in) == validateVariablesFrom(in.Variables, 1)

\* Mutant: the Ignore case is missing from the switch.
GetFailurePolicyFailOnly(in) ==
    IF in.FailurePolicy = Nil THEN [val |-> Nil, err |-> NoError]
    ELSE IF in.FailurePolicy[1] = Fail THEN [val |-> Some(Fail), err |-> NoError]
    ELSE [val |-> Nil, err |-> Errorf("ErrBadFailurePolicy", in.FailurePolicy[1])]

GetFailurePolicy(in) ==
    IF in.FailurePolicy = Nil THEN [val |-> Nil, err |-> NoError]
    ELSE IF in.FailurePolicy[1] = Fail THEN [val |-> Some(Fail), err |-> NoError]
    ELSE IF in.FailurePolicy[1] = Ignore THEN [val |-> Some(Ignore), err |-> NoError]
    ELSE [val |-> Nil, err |-> Errorf("ErrBadFailurePolicy", in.FailurePolicy[1])]

\* Mutant: the switch compares without regard to letter case.
GetV1alpha1FailurePolicyAnyCase(in) ==
    IF in.FailurePolicy = Nil THEN [val |-> Nil, err |-> NoError]
    ELSE IF ToLower(in.FailurePolicy[1]) = ToLower(Fail)
         THEN [val |-> Some(Fail), err |-> NoError]
    ELSE IF ToLower(in.FailurePolicy[1]) = ToLower(Ignore)
         THEN [val |-> Some(Ignore), err |-> NoError]
    ELSE [val |-> Nil, err |-> Errorf("ErrBadFailurePolicy", in.FailurePolicy[1])]

GetV1alpha1FailurePolicy(in) ==
    IF in.FailurePolicy = Nil THEN [val |-> Nil, err |-> NoError]
    ELSE IF in.FailurePolicy[1] = Fail THEN [val |-> Some(Fail), err |-> NoError]
    ELSE IF in.FailurePolicy[1] = Ignore THEN [val |-> Some(Ignore), err |-> NoError]
    ELSE [val |-> Nil, err |-> Errorf("ErrBadFailurePolicy", in.FailurePolicy[1])]

\* Mutant: the variables are validated before the match conditions.
ValidateVariablesFirst(in) ==
    IF validateVariables(in) # NoError THEN validateVariables(in)
    ELSE IF validateMatchConditions(in) # NoError THEN validateMatchConditions(in)
    ELSE IF GetFailurePolicy(in).err # NoError THEN GetFailurePolicy(in).err
    ELSE NoError

Validate(in) ==
    IF validateMatchConditions(in) # NoError THEN validateMatchConditions(in)
    ELSE IF validateVariables(in) # NoError THEN validateVariables(in)
    ELSE IF GetFailurePolicy(in).err # NoError THEN GetFailurePolicy(in).err
    ELSE NoError

\* make([]T, len(xs)) filled by index: never nil, also when xs is empty.
NamedExpression(e) == [Name |-> e.Name, Expression |-> e.Expression]

GetMatchConditions(in) ==
    IF validateMatchConditions(in) # NoError
    THEN [val |-> Nil, err |-> validateMatchConditions(in)]
    ELSE [val |-> Some([i \in 1..Len(in.MatchConditions) |->
                           NamedExpression(in.MatchConditions[i])]),
          err |-> NoError]

\* var xs []T; xs = append(xs, ...) per element: nil when nothing is appended.
RECURSIVE AppendEach(_, _, _)
AppendEach(slice, xs, i) ==
    IF i > Len(xs) THEN slice
    ELSE AppendEach(Some(Append(Items(slice), xs[i])), xs, i + 1)

\* Mutant: the loop stops one element early.
GetV1Alpha1MatchConditionsShort(in) ==
    IF validateMatchConditions(in) # NoError
    THEN [val |-> Nil, err |-> validateMatchConditions(in)]
    ELSE [val |-> AppendEach(Nil, [i \in 1..(Len(in.MatchConditions) - 1) |->
                                      NamedExpression(in.MatchConditions[i])], 1),
          err |-> NoError]

GetV1Alpha1MatchConditions(in) ==
    IF validateMatchConditions(in) # NoError
    THEN [val |-> Nil, err |-> validateMatchConditions(in)]
    ELSE [val |-> AppendEach(Nil, [i \in 1..Len(in.MatchConditions) |->
                                      NamedExpression(in.MatchConditions[i])], 1),
          err |-> NoError]

\* Mutant: the variables are converted without being validated again.
GetVariablesUnchecked(in) ==
    [val |-> Some([i \in 1..Len(in.Variables) |-> NamedExpression(in.Variables[i])]),
     err |-> NoError]

GetVariables(in) ==
    IF validateVariables(in) # NoError
    THEN [val |-> Nil, err |-> validateVariables(in)]
    ELSE [val |-> Some([i \in 1..Len(in.Variables) |->
                           NamedExpression(in.Variables[i])]),
          err |-> NoError]

GetV1Alpha1Variables(in) ==
    IF validateVariables(in) # NoError
    THEN [val |-> Nil, err |-> validateVariables(in)]
    ELSE [val |-> AppendEach(Nil, [i \in 1..Len(in.Variables) |->
                                      NamedExpression(in.Variables[i])], 1),
          err |-> NoError]

\* validatingadmissionpolicy.ValidationCondition has no message-expression field.
GetValidations(in) ==
    [val |-> Some([i \in 1..Len(in.Validations) |->
                      [Expression |-> in.Validations[i].Expression,
                       Message |-> in.Validations[i].Message]]),
     err |-> NoError]

\* Mutant: the message expression is not copied.
GetV1Alpha1ValidatonsNoMessageExpression(in) ==
    [val |-> AppendEach(Nil, [i \in 1..Len(in.Validations) |->
                                 [Expression |-> in.Validations[i].Expression,
                                  Message |-> in.Validations[i].Message,
                                  MessageExpression |-> ""]], 1),
     err |-> NoError]

GetV1Alpha1Validatons(in) ==
    [val |-> AppendEach(Nil, [i \in 1..Len(in.Validations) |->
                                 [Expression |-> in.Validations[i].Expression,
                                  Message |-> in.Validations[i].Message,
                                  MessageExpression |-> in.Validations[i].MessageExpression]], 1),
     err |-> NoError]

\* Entry i is a nil accessor when validation i has no message expression.
GetMessageExpressions(in) ==
    [val |-> Some([i \in 1..Len(in.Validations) |->
                      IF in.Validations[i].MessageExpression # ""
                      THEN Some([MessageExpression |-> in.Validations[i].MessageExpression])
                      ELSE Nil]),
     err |-> NoError]

(***************************************************************************)
(* The unstructured form of a Source: a map keyed by the json tags of the  *)
(* struct fields, in which a field tagged omitempty is absent when it has  *)
(* its zero value, and from which an absent key decodes to the zero value. *)
(***************************************************************************)
EmptyMap == [k \in {} |-> k]

Field(key, value, omit) == IF omit THEN EmptyMap ELSE key :> value

Get(m, key, zero) == IF key \in DOMAIN m THEN m[key] ELSE zero

ValidationToMap(v) ==
    Field("expression", v.Expression, v.Expression = "")
    @@ Field("message", v.Message, v.Message = "")
    @@ Field("messageExpression", v.MessageExpression, v.MessageExpression = "")

MatchConditionToMap(mc) ==
    ("name" :> mc.Name) @@ ("expression" :> mc.Expression)

VariableToMap(v) ==
    Field("name", v.Name, v.Name = <<>>)
    @@ Field("expression", v.Expression, v.Expression = "")

MustToUnstructured(in) ==
    Field("validations", [i \in 1..Len(in.Validations) |-> ValidationToMap(in.Validations[i])],
          Len(in.Validations) = 0)
    @@ (IF in.FailurePolicy = Nil THEN EmptyMap ELSE "failurePolicy" :> in.FailurePolicy[1])
    @@ Field("matchCondition",
             [i \in 1..Len(in.MatchConditions) |-> MatchConditionToMap(in.MatchConditions[i])],
             Len(in.MatchConditions) = 0)
    @@ Field("variables", [i \in 1..Len(in.Variables) |-> VariableToMap(in.Variables[i])],
             Len(in.Variables) = 0)

ValidationFromMap(m) ==
    [Expression |-> Get(m, "expression", ""), Message |-> Get(m, "message", ""),
     MessageExpression |-> Get(m, "messageExpression", "")]

MatchConditionFromMap(m) ==
    [Name |-> Get(m, "name", <<>>), Expression |-> Get(m, "expression", "")]

VariableFromMap(m) ==
    [Name |-> Get(m, "name", <<>>), Expression |-> Get(m, "expression", "")]

FromUnstructured(v) ==
    LET validations == Get(v, "validations", <<>>)
        conditions == Get(v, "matchCondition", <<>>)
        variables == Get(v, "variables", <<>>)
    IN  Source([i \in 1..Len(validations) |-> ValidationFromMap(validations[i])],
               IF "failurePolicy" \in DOMAIN v THEN Some(v["failurePolicy"]) ELSE Nil,
               [i \in 1..Len(conditions) |-> MatchConditionFromMap(conditions[i])],
               [i \in 1..Len(variables) |-> VariableFromMap(variables[i])])

(***************************************************************************)
(* templates.ConstraintTemplate, reduced to what the driver reads: the     *)
(* kind, and the targets with their code entries.  The Source of a code    *)
(* entry is a pointer, nil or to a value; the value is a map or a value of *)
(* another type, and a map either decodes into a Source or holds under one *)
(* of the Source's keys a value of a type that does not fit the field.     *)
(***************************************************************************)
MapValue(m) == [isMap |-> TRUE, decodes |-> TRUE, map |-> m]

OtherValue == [isMap |-> FALSE, decodes |-> FALSE, map |-> EmptyMap]

\* Such as {"validations": "none"}.
IllTypedValue == [isMap |-> TRUE, decodes |-> FALSE, map |-> EmptyMap]

GetSource(code) ==
    IF code.Source = Nil THEN [val |-> Nil, err |-> PanicNilSource]
    ELSE IF ~code.Source[1].isMap THEN [val |-> Nil, err |-> ErrBadType]
    ELSE IF ~code.Source[1].decodes THEN [val |-> Nil, err |-> ErrDecode]
    ELSE LET decoded == FromUnstructured(code.Source[1].map)
         IN  IF Validate(decoded) # NoError
             THEN [val |-> Nil, err |-> Validate(decoded)]
             ELSE [val |-> Some(decoded), err |-> NoError]

RECURSIVE GetSourceFromCode(_, _)
GetSourceFromCode(codes, i) ==
    IF i > Len(codes) THEN [val |-> Nil, err |-> ErrNotDefined]
    ELSE IF codes[i].Engine # Name THEN GetSourceFromCode(codes, i + 1)
    ELSE GetSource(codes[i])

\* Mutant: a matching entry that fails is passed over for a later one.
RECURSIVE GetSourceFromCodeFallThrough(_, _)
GetSourceFromCodeFallThrough(codes, i) ==
    IF i > Len(codes) THEN [val |-> Nil, err |-> ErrNotDefined]
    ELSE IF codes[i].Engine # Name THEN GetSourceFromCodeFallThrough(codes, i + 1)
    ELSE IF GetSource(codes[i]).err # NoError
         THEN GetSourceFromCodeFallThrough(codes, i + 1)
    ELSE GetSource(codes[i])

GetSourceFromTemplateFallThrough(ct) ==
    IF Len(ct.Targets) # 1 THEN [val |-> Nil, err |-> ErrWrongTargets]
    ELSE GetSourceFromCodeFallThrough(ct.Targets[1].Code, 1)

GetSourceFromTemplate(ct) ==
    IF Len(ct.Targets) # 1 THEN [val |-> Nil, err |-> ErrWrongTargets]
    ELSE GetSourceFromCode(ct.Targets[1].Code, 1)

\* The template the transform tests build around a source.
NewTestTemplate(kind, source) ==
    [Kind |-> kind,
     Targets |-> << [Code |-> << [Engine |-> Name,
                                 Source |-> Some(MapValue(MustToUnstructured(source)))] >>] >>]

(***************************************************************************)
(* The transform layer: ValidatingAdmissionPolicy from a template.         *)
(***************************************************************************)
NamePrefix == <<"g", "a", "t", "e", "k", "e", "e", "p", "e", "r", "-">>

MatchExcludedNamespacesName ==
    ReservedPrefix \o <<"m", "a", "t", "c", "h", "_", "e", "x", "c", "l", "u", "d", "e", "d", "_", "n", "a", "m", "e", "s", "p", "a", "c", "e", "s">>

MatchNamespacesName ==
    ReservedPrefix \o <<"m", "a", "t", "c", "h", "_", "n", "a", "m", "e", "s", "p", "a", "c", "e", "s">>

MatchNameName == ReservedPrefix \o <<"m", "a", "t", "c", "h", "_", "n", "a", "m", "e">>

MatchKindsName == ReservedPrefix \o <<"m", "a", "t", "c", "h", "_", "k", "i", "n", "d", "s">>

\* The four synthesized match conditions, in their fixed order.
AllMatchersV1Alpha1 ==
    << [Name |-> MatchExcludedNamespacesName, Expression |-> "matchExcludedNamespacesGlob"],
       [Name |-> MatchNamespacesName, Expression |-> "matchNamespacesGlob"],
       [Name |-> MatchNameName, Expression |-> "matchNameGlob"],
       [Name |-> MatchKindsName, Expression |-> "matchKinds"] >>

\* The synthesized variable that binds the constraint's parameters.
AllVariablesV1Alpha1 ==
    << [Name |-> ParamsName,
        Expression |-> "!has(params.spec) ? null : !has(params.spec.parameters) ? null: params.spec.parameters"] >>

TemplateToPolicyDefinition(ct) ==
    LET source == GetSourceFromTemplate(ct)
        in == source.val[1]
    IN  IF source.err # NoError THEN [val |-> Nil, err |-> source.err]
        ELSE IF GetV1Alpha1MatchConditions(in).err # NoError
             THEN [val |-> Nil, err |-> GetV1Alpha1MatchConditions(in).err]
        ELSE IF GetV1Alpha1Validatons(in).err # NoError
             THEN [val |-> Nil, err |-> GetV1Alpha1Validatons(in).err]
        ELSE IF GetV1Alpha1Variables(in).err # NoError
             THEN [val |-> Nil, err |-> GetV1Alpha1Variables(in).err]
        ELSE IF GetV1alpha1FailurePolicy(in).err # NoError
             THEN [val |-> Nil, err |-> GetV1alpha1FailurePolicy(in).err]
        ELSE [val |-> Some([Name |-> NamePrefix \o ToLower(ct.Kind),
                            ParamKind |-> [APIVersion |-> "constraints.gatekeeper.sh/v1beta1",
                                           Kind |-> ct.Kind],
                            MatchConditions |->
                                Items(GetV1Alpha1MatchConditions(in).val) \o AllMatchersV1Alpha1,
                            Validations |-> GetV1Alpha1Validatons(in).val,
                            FailurePolicy |-> GetV1alpha1FailurePolicy(in).val,
                            Variables |->
                                Items(GetV1Alpha1Variables(in).val) \o AllVariablesV1Alpha1]),
              err |-> NoError]

(***************************************************************************)
(* The transform layer: ValidatingAdmissionPolicyBinding from a constraint.*)
(* A constraint is reduced to its kind, its name, spec.enforcementAction   *)
(* and the two selectors of spec.match, each of the three nil when unset.  *)
(***************************************************************************)
Constraint(kind, name, enforcementAction, namespaceSelector, labelSelector) ==
    [Kind |-> kind, Name |-> name, EnforcementAction |-> enforcementAction,
     NamespaceSelector |-> namespaceSelector, LabelSelector |-> labelSelector]

EnforcementActionDeny == <<"d", "e", "n", "y">>

EnforcementActionWarn == <<"w", "a", "r", "n">>

\* The ValidationAction values of the admission API.
Deny == <<"D", "e", "n", "y">>

Warn == <<"W", "a", "r", "n">>

\* An absent enforcement action is deny.
GetEnforcementAction(c) ==
    IF c.EnforcementAction = Nil THEN EnforcementActionDeny ELSE c.EnforcementAction[1]

Binding(c, action) ==
    [Name |-> NamePrefix \o c.Name,
     PolicyName |-> NamePrefix \o ToLower(c.Kind),
     ParamRef |-> [Name |-> c.Name, ParameterNotFoundAction |-> "Allow"],
     MatchResources |-> [ObjectSelector |-> c.LabelSelector,
                         NamespaceSelector |-> c.NamespaceSelector],
     ValidationActions |-> <<action>>]

\* Mutant: an unrecognized enforcement action falls back to deny.
ConstraintToBindingDefaultDeny(c) ==
    IF GetEnforcementAction(c) = EnforcementActionWarn
    THEN [val |-> Some(Binding(c, Warn)), err |-> NoError]
    ELSE [val |-> Some(Binding(c, Deny)), err |-> NoError]

\* Mutant: the policy name keeps the letter case of the kind.
ConstraintToBindingKeepCase(c) ==
    IF GetEnforcementAction(c) = EnforcementActionDeny
    THEN [val |-> Some([Binding(c, Deny) EXCEPT !.PolicyName = NamePrefix \o c.Kind]),
          err |-> NoError]
    ELSE IF GetEnforcementAction(c) = EnforcementActionWarn
    THEN [val |-> Some([Binding(c, Warn) EXCEPT !.PolicyName = NamePrefix \o c.Kind]),
          err |-> NoError]
    ELSE [val |-> Nil, err |-> Errorf("ErrBadEnforcementAction", GetEnforcementAction(c))]

ConstraintToBinding(c) ==
    IF GetEnforcementAction(c) = EnforcementActionDeny
    THEN [val |-> Some(Binding(c, Deny)), err |-> NoError]
    ELSE IF GetEnforcementAction(c) = EnforcementActionWarn
    THEN [val |-> Some(Binding(c, Warn)), err |-> NoError]
    ELSE [val |-> Nil, err |-> Errorf("ErrBadEnforcementAction", GetEnforcementAction(c))]

(***************************************************************************)
(* Inputs.                                                                 *)
(***************************************************************************)
SeqsUpTo(S, n) == UNION {[1..k -> S] : k \in 0..n}

MustMatchSomething == <<"m", "u", "s", "t", "_", "m", "a", "t", "c", "h", "_", "s", "o", "m", "e", "t", "h", "i", "n", "g">>

\* The reserved prefix without its last character: not reserved.
GatekeeperInternal == SubSeq(ReservedPrefix, 1, Len(ReservedPrefix) - 1)

MyVariable == <<"m", "y", "_", "v", "a", "r", "i", "a", "b", "l", "e">>

MatchConditionPool ==
    { [Name |-> MustMatchSomething, Expression |-> "true == true"],
      [Name |-> ReservedPrefix, Expression |-> "true"],
      [Name |-> MatchKindsName, Expression |-> "false"],
      [Name |-> GatekeeperInternal, Expression |-> "true"],
      [Name |-> <<>>, Expression |-> "true"] }

VariablePool ==
    { [Name |-> MyVariable, Expression |-> "true"],
      [Name |-> ParamsName, Expression |-> "true"],
      [Name |-> ParamsName \o <<"x">>, Expression |-> "false"],
      [Name |-> <<"P">> \o Tail(ParamsName), Expression |-> "true"],
      [Name |-> ReservedPrefix \o MyVariable, Expression |-> "true"] }

\* The validation of the transform tests.
TestValidation ==
    [Expression |-> "1 == 1", Message |-> "some fallback message",
     MessageExpression |-> "some CEL string"]

ValidationPool ==
    { TestValidation,
      [Expression |-> "1 == 2", Message |-> "", MessageExpression |-> ""],
      [Expression |-> "", Message |-> "never", MessageExpression |-> "other CEL string"] }

FailurePolicyPool ==
    { Nil, Some(Fail), Some(Ignore), Some(ToLower(Fail)), Some(ToLower(Ignore)), Some(<<>>) }

SomePolicy == <<"S", "o", "m", "e", "P", "o", "l", "i", "c", "y">>

FooTemplate == <<"F", "o", "o", "T", "e", "m", "p", "l", "a", "t", "e">>

FooName == <<"f", "o", "o", "-", "n", "a", "m", "e">>

\* The constraint of the transform tests; an empty enforcement action is not set.
NewTestConstraint(enforcementAction, namespaceSelector, labelSelector) ==
    Constraint(FooTemplate, FooName,
               IF enforcementAction = <<>> THEN Nil ELSE Some(enforcementAction),
               namespaceSelector, labelSelector)

Sources ==
    { Source(vs, fp, mcs, vrs) :
        vs \in {<<>>, <<TestValidation>>},
        fp \in {Nil, Some(Fail), Some(Ignore), Some(ToLower(Fail))},
        mcs \in SeqsUpTo(MatchConditionPool, MaxConds),
        vrs \in SeqsUpTo(VariablePool, MaxVars) }

(***************************************************************************)
(* Spec: a source is written into a template, and the source is validated, *)
(* or read back from the template, or the template is compiled.            *)
(***************************************************************************)
Init ==
    /\ src \in Sources
    /\ template = NewTestTemplate(SomePolicy, src)
    /\ constraint = NewTestConstraint(<<>>, Nil, Nil)
    /\ op = "idle"
    /\ out = Nil
    /\ err = NoError

Return(name, result) ==
    /\ op = "idle"
    /\ op' = name
    /\ out' = result.val
    /\ err' = result.err
    /\ UNCHANGED <<src, template, constraint>>

DoValidate == Return("Validate", [val |-> Nil, err |-> Validate(src)])

DoGetSourceFromTemplate == Return("GetSourceFromTemplate", GetSourceFromTemplate(template))

DoTemplateToPolicyDefinition ==
    Return("TemplateToPolicyDefinition", TemplateToPolicyDefinition(template))

Next ==
    \/ DoValidate
    \/ DoGetSourceFromTemplate
    \/ DoTemplateToPolicyDefinition

Spec == Init /\ [][Next]_vars

(***************************************************************************)
(* Properties of Spec.                                                     *)
(***************************************************************************)
\* s starts with the reserved prefix, character by character.
Reserved(s) ==
    /\ Len(s) >= Len(ReservedPrefix)
    /\ \A i \in 1..Len(ReservedPrefix) : s[i] = ReservedPrefix[i]

Names(entries) == [i \in 1..Len(entries) |-> entries[i].Name]

HasReserved(entries) == \E i \in 1..Len(entries) : Reserved(entries[i].Name)

HasParams(entries) == \E i \in 1..Len(entries) : entries[i].Name = ParamsName

Compiled == op \in {"GetSourceFromTemplate", "TemplateToPolicyDefinition"}

\* C1: a template whose source has a match condition whose name starts with
\* the reserved prefix, at any position, fails to compile with
\* ErrBadMatchCondition and a nil output.
C1_ReservedMatchConditionRejected ==
    (Compiled /\ HasReserved(src.MatchConditions))
        => (err.is = "ErrBadMatchCondition" /\ out = Nil)

\* The reserved name is the prefix itself, in second position after a valid name.
C1_Witness ==
    /\ op = "TemplateToPolicyDefinition"
    /\ Len(src.MatchConditions) = 2
    /\ ~Reserved(src.MatchConditions[1].Name)
    /\ src.MatchConditions[2].Name = ReservedPrefix
    /\ err.is = "ErrBadMatchCondition"
    /\ out = Nil

\* C2: with valid match-condition names, a variable that starts with the
\* reserved prefix or is named exactly params fails the compilation with
\* ErrBadVariable and a nil output; ErrBadVariable is reported for no other
\* name, such as paramsx or Params.
C2_ReservedVariableRejected ==
    (Compiled /\ ~HasReserved(src.MatchConditions))
        => /\ (HasReserved(src.Variables) \/ HasParams(src.Variables))
                => (err.is = "ErrBadVariable" /\ out = Nil)
           /\ err.is = "ErrBadVariable"
                => (\E i \in 1..Len(src.Variables) :
                       /\ src.Variables[i].Name = err.arg
                       /\ (Reserved(err.arg) \/ err.arg = ParamsName))

\* paramsx passes, the params that follows it is rejected.
C2_Witness ==
    /\ op = "TemplateToPolicyDefinition"
    /\ ~HasReserved(src.MatchConditions)
    /\ Names(src.Variables) = <<ParamsName \o <<"x">>, ParamsName>>
    /\ err = Errorf("ErrBadVariable", ParamsName)
    /\ out = Nil

ValidSource(s) ==
    /\ ~HasReserved(s.MatchConditions)
    /\ ~HasReserved(s.Variables)
    /\ ~HasParams(s.Variables)
    /\ s.FailurePolicy \in {Nil, Some(Fail), Some(Ignore)}

\* C3: Validate returns no error for a source whose names avoid the reserved
\* prefix and the name params and whose failure policy is absent, Fail or Ignore.
C3_ValidSourceAccepted ==
    (op = "Validate" /\ ValidSource(src)) => err = NoError

\* Duplicate and empty names, a near miss of params, a validation, Ignore.
C3_Witness ==
    /\ op = "Validate"
    /\ Names(src.MatchConditions) = << <<>>, <<>> >>
    /\ Names(src.Variables) = <<ParamsName \o <<"x">>, ParamsName \o <<"x">> >>
    /\ src.FailurePolicy = Some(Ignore)
    /\ Len(src.Validations) = 1
    /\ err = NoError

\* C5: the compiled match conditions are the user's, in order, followed by the
\* four synthesized ones in their fixed order; the compiled variables are the
\* user's, in order, followed by the one variable named params.
C5_CompiledListsOrdered ==
    (op = "TemplateToPolicyDefinition" /\ Validate(src) = NoError)
        => /\ err = NoError
           /\ Len(out) = 1
           /\ Len(out[1].MatchConditions) = Len(src.MatchConditions) + 4
           /\ SubSeq(out[1].MatchConditions, 1, Len(src.MatchConditions)) = src.MatchConditions
           /\ Names(SubSeq(out[1].MatchConditions, Len(src.MatchConditions) + 1,
                           Len(src.MatchConditions) + 4))
                = <<MatchExcludedNamespacesName, MatchNamespacesName,
                    MatchNameName, MatchKindsName>>
           /\ Len(out[1].Variables) = Len(src.Variables) + 1
           /\ SubSeq(out[1].Variables, 1, Len(src.Variables)) = src.Variables
           /\ out[1].Variables[Len(src.Variables) + 1].Name = ParamsName

\* Two different user conditions and two different user variables.
C5_Witness ==
    /\ op = "TemplateToPolicyDefinition"
    /\ err = NoError
    /\ Len(src.MatchConditions) = 2
    /\ src.MatchConditions[1] # src.MatchConditions[2]
    /\ Len(src.Variables) = 2
    /\ src.Variables[1] # src.Variables[2]
    /\ Len(out[1].MatchConditions) = 6
    /\ Len(out[1].Variables) = 3

\* No user condition, no user variable.
C5_WitnessEmpty ==
    /\ op = "TemplateToPolicyDefinition"
    /\ err = NoError
    /\ src.MatchConditions = <<>>
    /\ src.Variables = <<>>
    /\ Len(out[1].MatchConditions) = 4
    /\ Len(out[1].Variables) = 1

Distinct(names) == \A i, j \in 1..Len(names) : i # j => names[i] # names[j]

\* The user's match-condition names followed by the synthesized ones: of the
\* source once Validate has accepted it, of the definition once it is compiled.
CombinedNames ==
    IF op = "TemplateToPolicyDefinition" THEN Names(out[1].MatchConditions)
    ELSE Names(src.MatchConditions) \o Names(AllMatchersV1Alpha1)

Accepted == op \in {"Validate", "TemplateToPolicyDefinition"} /\ err = NoError

\* C8 as stated: the match-condition names of a source accepted by Validate,
\* together with the four synthesized names, are pairwise distinct.
C8_AllNamesDistinct == Accepted => Distinct(CombinedNames)

\* C8 amended: the four synthesized names are pairwise distinct and no user
\* name of an accepted source equals one of them; user names may repeat.
C8_NoCollisionWithSynthesized ==
    Accepted
        => LET n == Len(src.MatchConditions)
           IN  /\ Len(CombinedNames) = n + 4
               /\ Distinct(SubSeq(CombinedNames, n + 1, n + 4))
               /\ \A i \in 1..n : \A j \in (n + 1)..(n + 4) :
                     CombinedNames[i] # CombinedNames[j]

\* An accepted source that repeats a user name.
C8_Witness ==
    /\ op = "TemplateToPolicyDefinition"
    /\ err = NoError
    /\ Len(src.MatchConditions) = 2
    /\ src.MatchConditions[1].Name = src.MatchConditions[2].Name
    /\ Len(out[1].MatchConditions) = 6

(***************************************************************************)
(* SpecNames: an accessor of the match conditions or of the variables is   *)
(* called on a source that was never validated.                            *)
(***************************************************************************)
EmptySource == Source(<<>>, Nil, <<>>, <<>>)

InitNames ==
    /\ src \in { Source(<<>>, Nil, mcs, vrs) :
                   mcs \in SeqsUpTo(MatchConditionPool, MaxConds),
                   vrs \in SeqsUpTo(VariablePool, MaxVars) }
    /\ template = NewTestTemplate(SomePolicy, EmptySource)
    /\ constraint = NewTestConstraint(<<>>, Nil, Nil)
    /\ op = "idle"
    /\ out = Nil
    /\ err = NoError

DoGetMatchConditions == Return("GetMatchConditions", GetMatchConditions(src))

DoGetV1Alpha1MatchConditions ==
    Return("GetV1Alpha1MatchConditions", GetV1Alpha1MatchConditions(src))

DoGetVariables == Return("GetVariables", GetVariables(src))

DoGetV1Alpha1Variables == Return("GetV1Alpha1Variables", GetV1Alpha1Variables(src))

NextNames ==
    \/ DoGetMatchConditions
    \/ DoGetV1Alpha1MatchConditions
    \/ DoGetVariables
    \/ DoGetV1Alpha1Variables

SpecNames == InitNames /\ [][NextNames]_vars

\* C9: called on any source, the match-condition accessors return
\* ErrBadMatchCondition and a nil list, or the source's conditions unchanged
\* and free of reserved names; the variable accessors return ErrBadVariable
\* and a nil list, or the source's variables unchanged and free of reserved
\* names and of params; the two flavors of an accessor agree.
C9_AccessorsRevalidate ==
    /\ op \in {"GetMatchConditions", "GetV1Alpha1MatchConditions"}
        => /\ \/ (err.is = "ErrBadMatchCondition" /\ out = Nil)
              \/ /\ err = NoError
                 /\ ~HasReserved(Items(out))
                 /\ Items(out) = src.MatchConditions
           /\ err = GetMatchConditions(src).err
           /\ err = GetV1Alpha1MatchConditions(src).err
           /\ Items(out) = Items(GetMatchConditions(src).val)
           /\ Items(out) = Items(GetV1Alpha1MatchConditions(src).val)
    /\ op \in {"GetVariables", "GetV1Alpha1Variables"}
        => /\ \/ (err.is = "ErrBadVariable" /\ out = Nil)
              \/ /\ err = NoError
                 /\ ~HasReserved(Items(out))
                 /\ ~HasParams(Items(out))
                 /\ Items(out) = src.Variables
           /\ err = GetVariables(src).err
           /\ err = GetV1Alpha1Variables(src).err
           /\ Items(out) = Items(GetVariables(src).val)
           /\ Items(out) = Items(GetV1Alpha1Variables(src).val)

\* GetVariables refuses a source whose second variable is params, whatever
\* its match conditions are.
C9_Witness ==
    /\ op = "GetVariables"
    /\ HasReserved(src.MatchConditions)
    /\ Len(src.Variables) = 2
    /\ src.Variables[1].Name = MyVariable
    /\ src.Variables[2].Name = ParamsName
    /\ err.is = "ErrBadVariable"
    /\ out = Nil

\* GetMatchConditions succeeds on valid conditions next to invalid variables.
C9_WitnessSuccess ==
    /\ op = "GetMatchConditions"
    /\ HasParams(src.Variables)
    /\ Len(src.MatchConditions) = 2
    /\ err = NoError
    /\ Items(out) = src.MatchConditions

(***************************************************************************)
(* SpecValues: an accessor of the validations or of the failure policy is  *)
(* called on a source.                                                     *)
(***************************************************************************)
InitValues ==
    /\ src \in { Source(vs, fp, mcs, vrs) :
                   vs \in SeqsUpTo(ValidationPool, MaxVals),
                   fp \in FailurePolicyPool,
                   mcs \in {<<>>, <<[Name |-> ReservedPrefix, Expression |-> "true"]>>},
                   vrs \in {<<>>, <<[Name |-> ParamsName, Expression |-> "true"]>>} }
    /\ template = NewTestTemplate(SomePolicy, EmptySource)
    /\ constraint = NewTestConstraint(<<>>, Nil, Nil)
    /\ op = "idle"
    /\ out = Nil
    /\ err = NoError

DoGetValidations == Return("GetValidations", GetValidations(src))

DoGetV1Alpha1Validatons == Return("GetV1Alpha1Validatons", GetV1Alpha1Validatons(src))

DoGetMessageExpressions == Return("GetMessageExpressions", GetMessageExpressions(src))

DoGetFailurePolicy == Return("GetFailurePolicy", GetFailurePolicy(src))

DoGetV1alpha1FailurePolicy ==
    Return("GetV1alpha1FailurePolicy", GetV1alpha1FailurePolicy(src))

NextValues ==
    \/ DoGetValidations
    \/ DoGetV1Alpha1Validatons
    \/ DoGetMessageExpressions
    \/ DoGetFailurePolicy
    \/ DoGetV1alpha1FailurePolicy

SpecValues == InitValues /\ [][NextValues]_vars

\* C4: both failure-policy accessors return nil and no error for an absent
\* policy, Fail for "Fail" and Ignore for "Ignore" with no error, and nil with
\* ErrBadFailurePolicy for every other string; the two never disagree.
C4_FailurePolicyClosedEnum ==
    op \in {"GetFailurePolicy", "GetV1alpha1FailurePolicy"}
        => /\ src.FailurePolicy = Nil => (out = Nil /\ err = NoError)
           /\ src.FailurePolicy = Some(<<"F", "a", "i", "l">>)
                => (out = Some(Fail) /\ err = NoError)
           /\ src.FailurePolicy = Some(<<"I", "g", "n", "o", "r", "e">>)
                => (out = Some(Ignore) /\ err = NoError)
           /\ src.FailurePolicy \notin {Nil, Some(<<"F", "a", "i", "l">>),
                                        Some(<<"I", "g", "n", "o", "r", "e">>)}
                => (out = Nil /\ err.is = "ErrBadFailurePolicy")
           /\ [val |-> out, err |-> err] = GetFailurePolicy(src)
           /\ [val |-> out, err |-> err] = GetV1alpha1FailurePolicy(src)

\* The alpha accessor refuses "ignore".
C4_Witness ==
    /\ op = "GetV1alpha1FailurePolicy"
    /\ src.FailurePolicy = Some(<<"i", "g", "n", "o", "r", "e">>)
    /\ err.is = "ErrBadFailurePolicy"
    /\ out = Nil

\* The message expression an entry of a target validation list carries; an
\* entry without the field carries none, as an omitted empty one.
MessageExpressionOf(e) ==
    IF "MessageExpression" \in DOMAIN e THEN e.MessageExpression ELSE ""

\* C10 as stated: both validation accessors return, without error, a list of
\* the length and order of the source's validations whose entry i carries the
\* expression, the message and the message expression of validation i.
C10_ValidationsCopiedWithMessageExpression ==
    op \in {"GetValidations", "GetV1Alpha1Validatons"}
        => /\ err = NoError
           /\ Len(Items(out)) = Len(src.Validations)
           /\ \A i \in 1..Len(src.Validations) :
                /\ Items(out)[i].Expression = src.Validations[i].Expression
                /\ Items(out)[i].Message = src.Validations[i].Message
                /\ MessageExpressionOf(Items(out)[i]) = src.Validations[i].MessageExpression

\* C10 amended: GetV1Alpha1Validatons copies expression, message and message
\* expression; GetValidations copies expression and message only, and
\* GetMessageExpressions returns the message expressions, entry i being nil
\* exactly when validation i has none; all three keep length and order and
\* return no error.
C10_ValidationsCopied ==
    /\ op = "GetV1Alpha1Validatons"
        => (err = NoError /\ Items(out) = src.Validations)
    /\ op = "GetValidations"
        => /\ err = NoError
           /\ Len(Items(out)) = Len(src.Validations)
           /\ \A i \in 1..Len(src.Validations) :
                Items(out)[i] = [Expression |-> src.Validations[i].Expression,
                                 Message |-> src.Validations[i].Message]
    /\ op = "GetMessageExpressions"
        => /\ err = NoError
           /\ Len(Items(out)) = Len(src.Validations)
           /\ \A i \in 1..Len(src.Validations) :
                /\ src.Validations[i].MessageExpression = "" <=> Items(out)[i] = Nil
                /\ src.Validations[i].MessageExpression # ""
                     => Items(out)[i] =
                          Some([MessageExpression |-> src.Validations[i].MessageExpression])

\* GetValidations on a validation with a message expression followed by one without.
C10_Witness ==
    /\ op = "GetValidations"
    /\ Len(src.Validations) = 2
    /\ src.Validations[1].MessageExpression # ""
    /\ src.Validations[2].MessageExpression = ""
    /\ err = NoError
    /\ Len(Items(out)) = 2

(***************************************************************************)
(* SpecBinding: a template of some kind is compiled, or a constraint of    *)
(* some kind is compiled into its binding.                                 *)
(***************************************************************************)
\* The valid source of the transform tests.
TestSource ==
    Source(<<TestValidation>>, Some(Fail),
           <<[Name |-> MustMatchSomething, Expression |-> "true == true"]>>,
           <<[Name |-> MyVariable, Expression |-> "true"]>>)

KindPool == { FooTemplate, ToLower(FooTemplate), <<"F", "O", "O">> \o SubSeq(FooTemplate, 4, 11),
              SomePolicy }

NamePool == { FooName, <<"F">> \o Tail(FooName) }

EnforcementActionPool ==
    { <<>>, EnforcementActionDeny, EnforcementActionWarn, Deny,
      <<"m", "a", "g", "i", "c", "u", "n", "i", "c", "o", "r", "n", "s">> }

SelectorPool == { Nil, Some([match |-> "yes"]) }

InitBinding ==
    /\ src = TestSource
    /\ template \in { NewTestTemplate(kind, TestSource) : kind \in KindPool }
    /\ constraint \in
         { [NewTestConstraint(ea, ns, ls) EXCEPT !.Kind = kind, !.Name = name] :
             kind \in KindPool, name \in NamePool, ea \in EnforcementActionPool,
             ns \in SelectorPool, ls \in SelectorPool }
    /\ op = "idle"
    /\ out = Nil
    /\ err = NoError

DoConstraintToBinding == Return("ConstraintToBinding", ConstraintToBinding(constraint))

NextBinding ==
    \/ DoTemplateToPolicyDefinition
    \/ DoConstraintToBinding

SpecBinding == InitBinding /\ [][NextBinding]_vars

\* C6: an absent enforcement action and "deny" give the validation actions
\* [Deny], "warn" gives [Warn], and any other string gives
\* ErrBadEnforcementAction and a nil binding, whatever the selectors are.
C6_EnforcementActionClosedSet ==
    op = "ConstraintToBinding"
        => /\ constraint.EnforcementAction \in {Nil, Some(<<"d", "e", "n", "y">>)}
                => (err = NoError /\ Len(out) = 1 /\ out[1].ValidationActions = <<Deny>>)
           /\ constraint.EnforcementAction = Some(<<"w", "a", "r", "n">>)
                => (err = NoError /\ Len(out) = 1 /\ out[1].ValidationActions = <<Warn>>)
           /\ constraint.EnforcementAction \notin
                  {Nil, Some(<<"d", "e", "n", "y">>), Some(<<"w", "a", "r", "n">>)}
                => (err.is = "ErrBadEnforcementAction" /\ out = Nil)

\* magicunicorns with both selectors set.
C6_Witness ==
    /\ op = "ConstraintToBinding"
    /\ constraint.EnforcementAction =
         Some(<<"m", "a", "g", "i", "c", "u", "n", "i", "c", "o", "r", "n", "s">>)
    /\ constraint.NamespaceSelector # Nil
    /\ constraint.LabelSelector # Nil
    /\ err.is = "ErrBadEnforcementAction"
    /\ out = Nil

\* C7: the policy name of the binding of a constraint equals the name of the
\* definition compiled from a template whose kind is the constraint's kind up
\* to letter case, namely gatekeeper- followed by the kind in lower case; the
\* binding's own name is gatekeeper- followed by the constraint's name as is.
C7_PolicyNameMatchesDefinition ==
    /\ (op = "ConstraintToBinding" /\ err = NoError
            /\ ToLower(template.Kind) = ToLower(constraint.Kind))
        => /\ out[1].PolicyName = TemplateToPolicyDefinition(template).val[1].Name
           /\ out[1].PolicyName = NamePrefix \o ToLower(constraint.Kind)
           /\ out[1].Name = NamePrefix \o constraint.Name
    /\ (op = "TemplateToPolicyDefinition" /\ ConstraintToBinding(constraint).err = NoError
            /\ ToLower(template.Kind) = ToLower(constraint.Kind))
        => /\ err = NoError
           /\ out[1].Name = ConstraintToBinding(constraint).val[1].PolicyName
           /\ out[1].Name = NamePrefix \o ToLower(template.Kind)

\* Kinds FooTemplate and FOOTemplate, name Foo-name.
C7_Witness ==
    /\ op = "ConstraintToBinding"
    /\ constraint.Kind = FooTemplate
    /\ template.Kind # FooTemplate
    /\ ToLower(template.Kind) = ToLower(FooTemplate)
    /\ constraint.Name = <<"F", "o", "o", "-", "n", "a", "m", "e">>
    /\ out # Nil
    /\ out[1].PolicyName =
         <<"g", "a", "t", "e", "k", "e", "e", "p", "e", "r", "-",
           "f", "o", "o", "t", "e", "m", "p", "l", "a", "t", "e">>
    /\ out[1].Name =
         <<"g", "a", "t", "e", "k", "e", "e", "p", "e", "r", "-",
           "F", "o", "o", "-", "n", "a", "m", "e">>

(***************************************************************************)
(* The order of Validate's checks (Spec).                                  *)
(***************************************************************************)
BadConditions(s) ==
    {i \in 1..Len(s.MatchConditions) : Reserved(s.MatchConditions[i].Name)}

BadVariables(s) ==
    {i \in 1..Len(s.Variables) :
        Reserved(s.Variables[i].Name) \/ s.Variables[i].Name = ParamsName}

Least(S) == CHOOSE i \in S : \A j \in S : i <= j

\* e is the one error the precedence of Validate's checks selects for s.
SelectedError(s, e) ==
    IF BadConditions(s) # {}
    THEN /\ e.is = "ErrBadMatchCondition"
         /\ e.arg = s.MatchConditions[Least(BadConditions(s))].Name
    ELSE IF BadVariables(s) # {}
    THEN /\ e.is = "ErrBadVariable"
         /\ e.arg = s.Variables[Least(BadVariables(s))].Name
    ELSE IF s.FailurePolicy \notin {Nil, Some(Fail), Some(Ignore)}
    THEN /\ e.is = "ErrBadFailurePolicy"
         /\ e.arg = s.FailurePolicy[1]
    ELSE e = NoError

\* C12: Validate reports one error: ErrBadMatchCondition for the first invalid
\* match condition, whatever the variables and the failure policy are; else
\* ErrBadVariable for the first invalid variable, whatever the failure policy
\* is; else ErrBadFailurePolicy for a failure policy outside the enum; and it
\* leaves the source as it was.
C12_ValidatePrecedence ==
    [][(op = "idle" /\ op' = "Validate") => (src' = src /\ SelectedError(src, err'))]_vars

\* The second match condition is the first invalid one, while the first
\* variable is params and the failure policy is outside the enum.
C12_Witness ==
    /\ op = "Validate"
    /\ Len(src.MatchConditions) = 2
    /\ BadConditions(src) = {2}
    /\ Len(src.Variables) = 2
    /\ 1 \in BadVariables(src)
    /\ src.FailurePolicy = Some(ToLower(Fail))
    /\ err = Errorf("ErrBadMatchCondition", src.MatchConditions[2].Name)

(***************************************************************************)
(* SpecTemplate: the source is read from, or the definition compiled from, *)
(* a template with any number of targets and of code entries.              *)
(***************************************************************************)
Rego == <<"R", "e", "g", "o">>

\* A source that Validate refuses.
BadSource ==
    Source(<<TestValidation>>, Some(Fail),
           <<[Name |-> MatchKindsName, Expression |-> "true == true"]>>,
           <<[Name |-> MyVariable, Expression |-> "true"]>>)

CodePool ==
    { [Engine |-> Name, Source |-> Some(MapValue(MustToUnstructured(TestSource)))],
      [Engine |-> Name, Source |-> Some(MapValue(MustToUnstructured(EmptySource)))],
      [Engine |-> Name, Source |-> Some(MapValue(MustToUnstructured(BadSource)))],
      [Engine |-> Name, Source |-> Some(OtherValue)],
      [Engine |-> Name, Source |-> Some(IllTypedValue)],
      [Engine |-> Name, Source |-> Nil],
      [Engine |-> Rego, Source |-> Some(OtherValue)],
      [Engine |-> Rego, Source |-> Some(MapValue(MustToUnstructured(TestSource)))] }

\* The targets after the first: what they hold is never read.
ExtraTargetPool ==
    { [Code |-> <<>>],
      [Code |-> << [Engine |-> Name,
                    Source |-> Some(MapValue(MustToUnstructured(TestSource)))] >>] }

TargetLists ==
    {<<>>} \cup
    { <<[Code |-> codes]>> \o extra :
        codes \in SeqsUpTo(CodePool, MaxCode),
        extra \in SeqsUpTo(ExtraTargetPool, MaxTargets - 1) }

InitTemplate ==
    /\ src = EmptySource
    /\ template \in { [Kind |-> SomePolicy, Targets |-> targets] : targets \in TargetLists }
    /\ constraint = NewTestConstraint(<<>>, Nil, Nil)
    /\ op = "idle"
    /\ out = Nil
    /\ err = NoError

NextTemplate ==
    \/ DoGetSourceFromTemplate
    \/ DoTemplateToPolicyDefinition

SpecTemplate == InitTemplate /\ [][NextTemplate]_vars

\* The code entries of the first target whose engine is K8sNativeValidation.
Matching(codes) == {i \in 1..Len(codes) : codes[i].Engine = Name}

\* (o, e) is the source of a valid map payload, or its validation error with
\* a nil source.
DecodedOutcome(payload, o, e) ==
    LET decoded == FromUnstructured(payload)
    IN  IF Validate(decoded) # NoError
        THEN e = Validate(decoded) /\ o = Nil
        ELSE e = NoError /\ o = Some(decoded)

\* The outcome C11 states for the first matching entry: ErrBadType when the
\* payload is not a structured map, else the source or its validation error.
\* Nothing is required here of an entry that has no payload at all.
StatedOutcome(entry, o, e) ==
    IF entry.Source = Nil THEN TRUE
    ELSE IF ~entry.Source[1].isMap THEN e = ErrBadType /\ o = Nil
    ELSE DecodedOutcome(entry.Source[1].map, o, e)

\* The outcome with the two cases the statement leaves out: a nil Source
\* panics, and a map that does not decode returns the decoding error.
EntryOutcome(entry, o, e) ==
    IF entry.Source = Nil THEN e = PanicNilSource /\ o = Nil
    ELSE IF ~entry.Source[1].isMap THEN e = ErrBadType /\ o = Nil
    ELSE IF ~entry.Source[1].decodes THEN e = ErrDecode /\ o = Nil
    ELSE DecodedOutcome(entry.Source[1].map, o, e)

\* A template without exactly one target, or without a matching code entry
\* in its one target, fails with a nil source.
StructuralFailure ==
    /\ Len(template.Targets) # 1 => (out = Nil /\ err = ErrWrongTargets)
    /\ (Len(template.Targets) = 1 /\ Matching(template.Targets[1].Code) = {})
         => (out = Nil /\ err = ErrNotDefined)

\* C11 as stated: GetSourceFromTemplate fails with a nil source without
\* exactly one target or without a matching entry; else the outcome is that of
\* the first matching entry alone: its source, or ErrBadType when its payload
\* is not a structured map, or its validation error, with a nil source.
C11_FirstMatchAsStated ==
    op = "GetSourceFromTemplate"
        => /\ StructuralFailure
           /\ (Len(template.Targets) = 1 /\ Matching(template.Targets[1].Code) # {})
                => StatedOutcome(
                       template.Targets[1].Code[Least(Matching(template.Targets[1].Code))],
                       out, err)

\* What GetSourceFromTemplate does: as C11 states, except that the first
\* matching entry also decides the outcome when its map does not decode (the
\* decoding error, nil source) and when its Source is nil (the call panics).
C11_FirstMatchDecides ==
    op = "GetSourceFromTemplate"
        => /\ StructuralFailure
           /\ (Len(template.Targets) = 1 /\ Matching(template.Targets[1].Code) # {})
                => EntryOutcome(
                       template.Targets[1].Code[Least(Matching(template.Targets[1].Code))],
                       out, err)

\* An entry of another engine is skipped, the first matching entry fails
\* validation, and the valid matching entry after it is not used.
C11_Witness ==
    /\ op = "GetSourceFromTemplate"
    /\ Len(template.Targets) = 1
    /\ Len(template.Targets[1].Code) = 3
    /\ template.Targets[1].Code[1].Engine = Rego
    /\ template.Targets[1].Code[1].Source = Some(MapValue(MustToUnstructured(TestSource)))
    /\ template.Targets[1].Code[2] =
         [Engine |-> Name, Source |-> Some(MapValue(MustToUnstructured(BadSource)))]
    /\ template.Targets[1].Code[3] =
         [Engine |-> Name, Source |-> Some(MapValue(MustToUnstructured(TestSource)))]
    /\ err = Errorf("ErrBadMatchCondition", MatchKindsName)
    /\ out = Nil

====
